---- MODULE Spec2Model ----
(***************************************************************************)
(* Model of hyperpolymath/system-tools:                                    *)
(*   - src/ffi/systemd/shim/src/lib.rs: the C-ABI shim over sd-bus and     *)
(*     sd-journal.  The exported systemd_shim_* functions are translated   *)
(*     from the source.  The linked libsystemd functions (mod raw) are     *)
(*     only declared in the source (extern "C"); their behaviour is        *)
(*     modelled from the specification's description of the library.       *)
(*   - src/ambulances/network/src-tauri/src/main.rs: the desktop shell's   *)
(*     command handlers.                                                   *)
(***************************************************************************)
EXTENDS Integers, Sequences, FiniteSets, TLC

\* ------------------------------------------------------------------ bounds
MaxRecords == 2     \* records in the journal fixture
MaxHandles == 1     \* handles the library hands out per kind (never reused)
MaxBlocks == 2      \* heap blocks the library can allocate
MaxCalls == 4       \* shim calls in one run of the combined specification

\* ptr::null()
NULL == 0

VARIABLES
    \* --- state of the native library and of the memory it writes
    journal,      \* the journal's records, oldest first
    jh,           \* journal handles: [st, matches, cursor, buf]
    bh,           \* bus handles: "unopened" | "open" | "released"
    heap,         \* live heap blocks
    ub,           \* the library has been driven into undefined behaviour
    \* --- the caller's memory the shim's pointer arguments point to
    err,          \* the caller's sd_bus_error {name, message, need_free}
    out_bus, out_journal, out_string, out_data, out_len,
    \* --- observation of the last shim call
    shimCall,     \* [fn, args, ret] of the last exported function called
    trace,        \* the native calls that shim call issued, in order
    ncalls,       \* shim calls so far (bounded in the combined specification)
    \* --- what the caller has done so far (its own bookkeeping)
    released,     \* [bus, journal]: handles the caller has passed to a release
    misuse,       \* the caller released twice or used a handle after release
    added,        \* per journal handle: match expressions added with status >= 0
    anchor,       \* per journal handle: "tail" after seek_tail, until iteration
    held,         \* per field: the view get_data returned since the last advance
    \* --- desktop shell
    euid,         \* effective user id of the shell process
    host,         \* [platform, mode]: the OS and the st_mode of "/"
    shell         \* outcome of the last command handler

shimVars == <<journal, jh, bh, heap, ub, err, out_bus, out_journal, out_string,
              out_data, out_len, shimCall, trace, ncalls, released, misuse,
              added, anchor, held>>
shellVars == <<euid, host, shell>>
vars == <<shimVars, shellVars>>

\* ------------------------------------------------------- data of the model
Handles == 1..MaxHandles
Blocks == 1..MaxBlocks
\* the address of a string constant of the library: not a heap block
StaticMsg == MaxBlocks + 1
\* the address of the caller's sd_bus_error
ErrPtr == MaxBlocks + 2
ErrCodes == {-22}
ENOENT == 0 - 2

\* journal records: field -> value bytes; a record may lack MESSAGE
RecordKinds ==
    { [UNIT |-> <<"sshd.service">>, MESSAGE |-> <<"h", "i">>],
      [UNIT |-> <<"cron.service">>] }
Fields == {"UNIT", "MESSAGE"}
\* raw match expressions, FIELD=value, as the caller passes them (data, len)
MatchData ==
    { <<"UNIT", "=", "cron.service">>, <<"MESSAGE", "=", "h", "i">> }
Fixtures == UNION { [1..n -> RecordKinds] : n \in 0..MaxRecords }

\* what the library decides on its own in one call: whether it fails, with
\* which status, and whether an error message it produces is heap-allocated
AllChoices == [fail : BOOLEAN, status : ErrCodes, nf : BOOLEAN]
\* the choices of a call that produces no error message
Choices == {c \in AllChoices : ~c.nf}

NoView == [h |-> NULL, pos |-> 0, f |-> "none"]
\* impl Default for sd_bus_error
ErrorDefault == [name |-> NULL, message |-> NULL, need_free |-> 0]
NoCall == [fn |-> "none", args |-> <<>>, ret |-> 0]

\* the state the native library reads and writes, as one value
W == [journal |-> journal, jh |-> jh, bh |-> bh, heap |-> heap, ub |-> ub,
      err |-> err, out_bus |-> out_bus, out_journal |-> out_journal,
      out_string |-> out_string, out_data |-> out_data, out_len |-> out_len,
      trace |-> <<>>]

\* a native call returns: it is logged with its arguments and result
Done(w, fn, args, r) ==
    [w |-> [w EXCEPT !.trace = Append(@, [fn |-> fn, args |-> args, ret |-> r])],
     ret |-> r]

\* the status of a call whose behaviour is undefined: any the build can produce
Arbitrary(c) == IF c.fail THEN c.status ELSE 0

\* ------------------------------------------------- libsystemd: the journal
Bytes(rec, f) == <<f, "=">> \o rec[f]

\* the match expression the library reads from (data, size)
ParseMatch(data, size) ==
    IF size = Len(data) /\ size >= 3 /\ data[2] = "="
    THEN <<[f |-> data[1], v |-> SubSeq(data, 3, size)]>>
    ELSE <<>>

\* matches on one field are alternatives; different fields must all match
Satisfies(rec, ms) ==
    \A f \in {m.f : m \in ms} :
        \E m \in ms : m.f = f /\ f \in DOMAIN rec /\ rec[f] = m.v

MatchingAt(w, j) ==
    {i \in 1..Len(w.journal) : Satisfies(w.journal[i], w.jh[j].matches)}

SetMax(S) == CHOOSE x \in S : \A y \in S : y <= x
SetMin(S) == CHOOSE x \in S : \A y \in S : x <= y

JOpen(w, j) == j \in Handles /\ w.jh[j].st = "open"

FreeHandles(tbl) == {h \in Handles : tbl[h] = "unopened"}
FreeJournals(w) == {h \in Handles : w.jh[h].st = "unopened"}

sd_journal_open(w, ret, flags, c) ==
    IF c.fail \/ FreeJournals(w) = {}
    THEN Done(w, "sd_journal_open", <<ret, flags>>, c.status)
    ELSE LET h == SetMin(FreeJournals(w)) IN
         Done([w EXCEPT !.jh[h] = [st |-> "open", matches |-> {}, cursor |-> 0,
                                   buf |-> 0],
                        !.out_journal = h],
              "sd_journal_open", <<ret, flags>>, 0)

sd_journal_close(w, j) ==
    IF JOpen(w, j)
    THEN Done([w EXCEPT !.jh[j] = [st |-> "closed", matches |-> {}, cursor |-> 0,
                                   buf |-> 0]],
              "sd_journal_close", <<j>>, 0)
    ELSE Done([w EXCEPT !.ub = TRUE], "sd_journal_close", <<j>>, 0)

sd_journal_add_match(w, j, data, size, c) ==
    LET a == <<j, data, size>> IN
    IF ~JOpen(w, j)
    THEN Done([w EXCEPT !.ub = TRUE], "sd_journal_add_match", a, Arbitrary(c))
    ELSE IF c.fail THEN Done(w, "sd_journal_add_match", a, c.status)
    ELSE IF ParseMatch(data, size) = <<>>
    THEN Done(w, "sd_journal_add_match", a, -22)
    ELSE Done([w EXCEPT !.jh[j].matches = @ \cup {ParseMatch(data, size)[1]}],
              "sd_journal_add_match", a, 0)

sd_journal_seek_tail(w, j, c) ==
    IF ~JOpen(w, j)
    THEN Done([w EXCEPT !.ub = TRUE], "sd_journal_seek_tail", <<j>>, Arbitrary(c))
    ELSE IF c.fail THEN Done(w, "sd_journal_seek_tail", <<j>>, c.status)
    ELSE Done([w EXCEPT !.jh[j].cursor = Len(w.journal) + 1],
              "sd_journal_seek_tail", <<j>>, 0)

\* one record backward (dir = -1) or forward (dir = 1) among the matching ones
Advance(w, j, dir, fn, c) ==
    IF ~JOpen(w, j)
    THEN Done([w EXCEPT !.ub = TRUE], fn, <<j>>, Arbitrary(c))
    ELSE IF c.fail THEN Done(w, fn, <<j>>, c.status)
    ELSE LET cur == w.jh[j].cursor
             cand == {i \in MatchingAt(w, j) : IF dir < 0 THEN i < cur ELSE i > cur}
         IN  IF cand = {} THEN Done(w, fn, <<j>>, 0)
             ELSE LET to == IF dir < 0 THEN SetMax(cand) ELSE SetMin(cand) IN
                  Done([w EXCEPT !.jh[j].cursor = to, !.jh[j].buf = to],
                       fn, <<j>>, 1)

sd_journal_previous(w, j, c) == Advance(w, j, -1, "sd_journal_previous", c)

sd_journal_next(w, j, c) == Advance(w, j, 1, "sd_journal_next", c)

sd_journal_get_data(w, j, field, data, length, c) ==
    LET a == <<j, field, data, length>> IN
    IF ~JOpen(w, j)
    THEN Done([w EXCEPT !.ub = TRUE], "sd_journal_get_data", a, Arbitrary(c))
    ELSE IF c.fail \/ w.jh[j].cursor \notin 1..Len(w.journal)
    THEN Done(w, "sd_journal_get_data", a, c.status)
    ELSE LET pos == w.jh[j].cursor IN
         IF field \notin DOMAIN w.journal[pos]
         THEN Done(w, "sd_journal_get_data", a, ENOENT)
         ELSE Done([w EXCEPT !.out_data = [h |-> j, pos |-> pos, f |-> field],
                             !.out_len = Len(Bytes(w.journal[pos], field))],
                   "sd_journal_get_data", a, 0)

\* the bytes a borrowed view points at, while the library keeps them in place
Deref(w, p) ==
    IF /\ p.h \in Handles
       /\ w.jh[p.h].st = "open"
       /\ w.jh[p.h].buf = p.pos
       /\ p.pos \in 1..Len(w.journal)
       /\ p.f \in DOMAIN w.journal[p.pos]
    THEN Bytes(w.journal[p.pos], p.f)
    ELSE <<"dangling">>

\* ----------------------------------------------------- libsystemd: the bus
BOpen(w, b) == b \in Handles /\ w.bh[b] = "open"
FreeBlocks(w) == Blocks \ w.heap
ExistingDest == {"org.freedesktop.systemd1"}

sd_bus_open_system(w, ret, c) ==
    IF c.fail \/ FreeHandles(w.bh) = {}
    THEN Done(w, "sd_bus_open_system", <<ret>>, c.status)
    ELSE LET h == SetMin(FreeHandles(w.bh)) IN
         Done([w EXCEPT !.bh[h] = "open", !.out_bus = h],
              "sd_bus_open_system", <<ret>>, 0)

sd_bus_unref(w, b, c) ==
    IF BOpen(w, b)
    THEN Done([w EXCEPT !.bh[b] = "released"], "sd_bus_unref", <<b>>, NULL)
    ELSE Done([w EXCEPT !.ub = TRUE], "sd_bus_unref", <<b>>,
              IF c.fail THEN b ELSE NULL)

sd_bus_get_property_string(w, b, destination, path, interface, member, e, ret, c) ==
    LET a == <<b, destination, path, interface, member, e, ret>>
        fn == "sd_bus_get_property_string"
    IN
    IF ~BOpen(w, b) THEN Done([w EXCEPT !.ub = TRUE], fn, a, Arbitrary(c))
    ELSE IF c.fail \/ destination \notin ExistingDest \/ FreeBlocks(w) = {}
    THEN \* failure: the descriptor, when given, is populated
         IF e = NULL THEN Done(w, fn, a, c.status)
         ELSE IF c.nf /\ FreeBlocks(w) # {}
         THEN LET m == SetMin(FreeBlocks(w)) IN
              Done([w EXCEPT !.err = [name |-> StaticMsg, message |-> m,
                                      need_free |-> 1],
                             !.heap = @ \cup {m}], fn, a, c.status)
         ELSE Done([w EXCEPT !.err = [name |-> StaticMsg, message |-> StaticMsg,
                                      need_free |-> 0]], fn, a, c.status)
    ELSE \* success: a newly allocated string is written through ret
         LET s == SetMin(FreeBlocks(w)) IN
         Done([w EXCEPT !.out_string = s, !.heap = @ \cup {s}], fn, a, 0)

sd_bus_error_free(w, e) ==
    IF e = NULL THEN Done(w, "sd_bus_error_free", <<e>>, 0)
    ELSE IF w.err.need_free = 0
    THEN Done([w EXCEPT !.err = ErrorDefault], "sd_bus_error_free", <<e>>, 0)
    ELSE IF w.err.message \in w.heap
    THEN Done([w EXCEPT !.heap = @ \ {w.err.message}, !.err = ErrorDefault],
              "sd_bus_error_free", <<e>>, 0)
    ELSE Done([w EXCEPT !.ub = TRUE], "sd_bus_error_free", <<e>>, 0)

\* libc::free: a live block is released; a block that is not live is undefined
libc_free(w, p) ==
    IF p = NULL THEN Done(w, "free", <<p>>, 0)
    ELSE IF p \in w.heap THEN Done([w EXCEPT !.heap = @ \ {p}], "free", <<p>>, 0)
    ELSE Done([w EXCEPT !.ub = TRUE], "free", <<p>>, 0)

\* ------------------------------------------------ the exported shim functions
systemd_shim_bus_open_system(w, bus, c) == sd_bus_open_system(w, bus, c)

systemd_shim_bus_unref(w, bus, c) == sd_bus_unref(w, bus, c)

\* faulty variants of the property query: one retry after a failure; the error
\* out-parameter not handed on
Retry_bus_get_property_string(w, bus, destination, path, interface, member, error, ret, c) ==
    LET r == sd_bus_get_property_string(w, bus, destination, path, interface, member, error, ret, c)
    IN  IF r.ret < 0
        THEN sd_bus_get_property_string(r.w, bus, destination, path, interface, member, error, ret, c)
        ELSE r

NoError_bus_get_property_string(w, bus, destination, path, interface, member, error, ret, c) ==
    sd_bus_get_property_string(w, bus, destination, path, interface, member, NULL, ret, c)

systemd_shim_bus_get_property_string(w, bus, destination, path, interface, member, error, ret, c) ==
    sd_bus_get_property_string(w, bus, destination, path, interface, member, error, ret, c)

\* faulty variant: the message is freed by hand, whatever need_free says
FreeMessage_bus_error_free(w, e, c) ==
    IF e = NULL THEN [w |-> w, ret |-> 0] ELSE libc_free(w, w.err.message)

systemd_shim_bus_error_free(w, e, c) == sd_bus_error_free(w, e)

systemd_shim_free_string(w, s, c) ==
    IF s # NULL THEN libc_free(w, s) ELSE [w |-> w, ret |-> 0]

systemd_shim_journal_open(w, journal_out, flags, c) ==
    sd_journal_open(w, journal_out, flags, c)

\* faulty variant: a release of a handle that is not open is swallowed
Guarded_journal_close(w, j, c) ==
    IF JOpen(w, j) THEN sd_journal_close(w, j) ELSE [w |-> w, ret |-> 0]

systemd_shim_journal_close(w, j, c) == sd_journal_close(w, j)

\* faulty variant: the match is accepted but never handed to the library
Dropped_journal_add_match(w, j, data, len, c) == [w |-> w, ret |-> 0]

\* data as *const c_void: the same address
systemd_shim_journal_add_match(w, j, data, len, c) ==
    sd_journal_add_match(w, j, data, len, c)

systemd_shim_journal_seek_tail(w, j, c) == sd_journal_seek_tail(w, j, c)

\* faulty variant: the wrong direction
Forward_journal_previous(w, j, c) == sd_journal_next(w, j, c)

systemd_shim_journal_previous(w, j, c) == sd_journal_previous(w, j, c)

systemd_shim_journal_next(w, j, c) == sd_journal_next(w, j, c)

\* faulty variant: a second read of the field last read is answered from the slot
Cached_journal_get_data(w, j, field, data, len, c) ==
    IF w.out_data.h = j /\ w.out_data.f = field
    THEN [w |-> w, ret |-> 0]
    ELSE sd_journal_get_data(w, j, field, data, len, c)

\* data as *mut *const c_void: the same address
systemd_shim_journal_get_data(w, j, field, data, len, c) ==
    sd_journal_get_data(w, j, field, data, len, c)

\* ------------------------------------------------------------- shim calls
NoHeld == [ptr |-> NoView, len |-> 0, bytes |-> <<>>]
JUnopened == [st |-> "unopened", matches |-> {}, cursor |-> 0, buf |-> 0]
KnownJ == {h \in Handles : jh[h].st # "unopened"}
KnownB == {h \in Handles : bh[h] # "unopened"}
Destinations == {"org.freedesktop.systemd1", "no.such.destination"}

\* the library's and the caller's memory after the call, and what was observed;
\* once the library's behaviour is undefined the run is not followed further
Commit(fn, args, r) ==
    /\ ~ub
    /\ journal' = r.w.journal /\ jh' = r.w.jh /\ bh' = r.w.bh
    /\ heap' = r.w.heap /\ ub' = r.w.ub /\ err' = r.w.err
    /\ out_bus' = r.w.out_bus /\ out_journal' = r.w.out_journal
    /\ out_string' = r.w.out_string /\ out_data' = r.w.out_data
    /\ out_len' = r.w.out_len
    /\ trace' = r.w.trace
    /\ shimCall' = [fn |-> fn, args |-> args, ret |-> r.ret]

UseJournal(j) == misuse' = (misuse \/ j \in released.journal) /\ UNCHANGED released
UseBus(b) == misuse' = (misuse \/ b \in released.bus) /\ UNCHANGED released

\* the caller holds at most one open handle of a kind at a time
BusOpenSystem ==
    \E c \in Choices :
        /\ \A b \in Handles : bh[b] # "open"
        /\ Commit("bus_open_system", <<"out_bus">>,
                  systemd_shim_bus_open_system(W, "out_bus", c))
        /\ UNCHANGED <<released, misuse, added, anchor, held>>

BusUnref ==
    \E b \in KnownB, c \in Choices :
        /\ Commit("bus_unref", <<b>>, systemd_shim_bus_unref(W, b, c))
        /\ misuse' = (misuse \/ b \in released.bus)
        /\ released' = [released EXCEPT !.bus = @ \cup {b}]
        /\ UNCHANGED <<added, anchor, held>>

BusGetPropertyString ==
    \E b \in KnownB, d \in Destinations, e \in {NULL, ErrPtr}, c \in AllChoices :
        /\ Commit("bus_get_property_string",
                  <<b, d, "/path", "iface", "member", e, "out_string">>,
                  systemd_shim_bus_get_property_string(
                      W, b, d, "/path", "iface", "member", e, "out_string", c))
        /\ UseBus(b)
        /\ UNCHANGED <<added, anchor, held>>

BusErrorFree ==
    \E e \in {NULL, ErrPtr}, c \in Choices :
        /\ Commit("bus_error_free", <<e>>, systemd_shim_bus_error_free(W, e, c))
        /\ UNCHANGED <<released, misuse, added, anchor, held>>

FreeString ==
    \E s \in {NULL, out_string}, c \in Choices :
        /\ Commit("free_string", <<s>>, systemd_shim_free_string(W, s, c))
        /\ UNCHANGED <<released, misuse, added, anchor, held>>

JournalOpen ==
    \E flags \in {0, 1}, c \in Choices :
        /\ \A j \in Handles : jh[j].st # "open"
        /\ Commit("journal_open", <<"out_journal", flags>>,
                  systemd_shim_journal_open(W, "out_journal", flags, c))
        /\ UNCHANGED <<released, misuse, added, anchor, held>>

JournalClose ==
    \E j \in KnownJ, c \in Choices :
        /\ Commit("journal_close", <<j>>, systemd_shim_journal_close(W, j, c))
        /\ misuse' = (misuse \/ j \in released.journal)
        /\ released' = [released EXCEPT !.journal = @ \cup {j}]
        /\ held' = [f \in Fields |-> IF held[f].ptr.h = j THEN NoHeld ELSE held[f]]
        /\ added' = [added EXCEPT ![j] = {}]
        /\ anchor' = [anchor EXCEPT ![j] = "moved"]

JournalAddMatch ==
    \E j \in KnownJ, data \in MatchData, c \in Choices :
        LET r == systemd_shim_journal_add_match(W, j, data, Len(data), c) IN
        /\ Commit("journal_add_match", <<j, data, Len(data)>>, r)
        /\ UseJournal(j)
        /\ added' = [added EXCEPT ![j] = IF r.ret >= 0 THEN @ \cup {data} ELSE @]
        /\ UNCHANGED <<anchor, held>>

JournalSeekTail ==
    \E j \in KnownJ, c \in Choices :
        LET r == systemd_shim_journal_seek_tail(W, j, c) IN
        /\ Commit("journal_seek_tail", <<j>>, r)
        /\ UseJournal(j)
        /\ anchor' = [anchor EXCEPT ![j] = IF r.ret >= 0 THEN "tail" ELSE @]
        /\ UNCHANGED <<added, held>>

\* the caller's bookkeeping after a next/previous call on j
Advanced(j, r) ==
    /\ UseJournal(j)
    /\ anchor' = [anchor EXCEPT ![j] = IF r.ret > 0 THEN "moved" ELSE @]
    /\ held' = [f \in Fields |-> IF held[f].ptr.h = j THEN NoHeld ELSE held[f]]
    /\ UNCHANGED added

JournalPrevious ==
    \E j \in KnownJ, c \in Choices :
        LET r == systemd_shim_journal_previous(W, j, c) IN
        Commit("journal_previous", <<j>>, r) /\ Advanced(j, r)

JournalNext ==
    \E j \in KnownJ, c \in Choices :
        LET r == systemd_shim_journal_next(W, j, c) IN
        Commit("journal_next", <<j>>, r) /\ Advanced(j, r)

JournalGetData ==
    \E j \in KnownJ, f \in Fields, c \in Choices :
        LET r == systemd_shim_journal_get_data(W, j, f, "out_data", "out_len", c) IN
        /\ Commit("journal_get_data", <<j, f, "out_data", "out_len">>, r)
        /\ UseJournal(j)
        /\ held' = IF r.ret >= 0
                   THEN [held EXCEPT ![f] = [ptr |-> r.w.out_data, len |-> r.w.out_len,
                                             bytes |-> Deref(r.w, r.w.out_data)]]
                   ELSE held
        /\ UNCHANGED <<added, anchor>>

\* ----------------------------------------------------------- desktop shell
Oct(d) == d[1] * 4096 + d[2] * 512 + d[3] * 64 + d[4] * 8 + d[5]
\* st_mode of "/": a directory, with the permission bits of three hosts
RootModes == {Oct(<<4, 0, 7, 5, 5>>), Oct(<<4, 0, 5, 5, 5>>), Oct(<<4, 0, 7, 0, 0>>)}
Euids == {0, 1000}
Platforms == {"linux", "windows"}
Targets == {"dns", "all"}
ExitCodes == {0, 1, 101}
\* bytes of standard error; "xFF" is a byte that is not valid UTF-8
Stderrs == {<<>>, <<"boom">>, <<"bad", "xFF">>}
DiagnosticFields == {"version", "tool", "dns", "routing", "connectivity", "interfaces"}
RepairFields == {"version", "tool", "dns_repair", "interface_repair", "routing_repair"}
Obj(keys) == [k \in keys |-> IF k \in {"version", "tool"} THEN "string" ELSE "value"]
NotJson == [k \in {"<garbage>"} |-> "garbage"]
\* documents on standard output: JSON objects as key -> kind of value
Stdouts ==
    { Obj(DiagnosticFields), Obj(RepairFields), Obj(DiagnosticFields \ {"dns"}),
      Obj(RepairFields \cup {"extra"}), [Obj(RepairFields) EXCEPT !["tool"] = "value"],
      NotJson }
Procs == [spawned : BOOLEAN, exit : ExitCodes, stderr : Stderrs, stdout : Stdouts]

\* String::from_utf8_lossy
from_utf8_lossy(b) == [i \in 1..Len(b) |-> IF b[i] = "xFF" THEN "uFFFD" ELSE b[i]]

\* serde_json::from_slice into a struct whose fields are `fields`
from_slice(fields, doc) ==
    IF /\ fields \subseteq DOMAIN doc
       /\ doc["version"] = "string" /\ doc["tool"] = "string"
    THEN [ok |-> TRUE, value |-> [k \in fields |-> doc[k]]]
    ELSE [ok |-> FALSE, value |-> <<"Failed to parse JSON: ", "serde error">>]

Outcome(cmd, argv, parsed, ok, value, proc) ==
    [cmd |-> cmd, argv |-> argv, parsed |-> parsed, ok |-> ok, value |-> value,
     proc |-> proc]

\* faulty variant: the exit status is not looked at
IgnoreStatus_run_diagnostics(proc) ==
    LET argv == <<"./bin/network-ambulance-d", "diagnose", "--json">> IN
    IF ~proc.spawned
    THEN Outcome("run_diagnostics", argv, FALSE, FALSE,
                 <<"Failed to execute D backend: ", "io error">>, proc)
    ELSE LET p == from_slice(DiagnosticFields, proc.stdout) IN
         Outcome("run_diagnostics", argv, TRUE, p.ok, p.value, proc)

run_diagnostics(proc) ==
    LET argv == <<"./bin/network-ambulance-d", "diagnose", "--json">> IN
    IF ~proc.spawned
    THEN Outcome("run_diagnostics", argv, FALSE, FALSE,
                 <<"Failed to execute D backend: ", "io error">>, proc)
    ELSE IF proc.exit # 0
    THEN Outcome("run_diagnostics", argv, FALSE, FALSE,
                 <<"D backend failed: ">> \o from_utf8_lossy(proc.stderr), proc)
    ELSE LET p == from_slice(DiagnosticFields, proc.stdout) IN
         Outcome("run_diagnostics", argv, TRUE, p.ok, p.value, proc)

\* metadata.permissions().mode() & 0o700
ModeAnd700(mode) == ((mode \div 64) % 8) * 64

run_repair(target, platform, metaOk, mode, proc) ==
    LET argv == <<"./bin/network-ambulance-d", "repair", target, "--json">> IN
    IF platform = "linux" /\ ~metaOk
    THEN Outcome("run_repair", <<>>, FALSE, FALSE, <<"io error">>, proc)
    ELSE IF platform = "linux" /\ ModeAnd700(mode) # 7 * 64
    THEN Outcome("run_repair", <<>>, FALSE, FALSE,
                 <<"Repair operations require administrator privileges">>, proc)
    ELSE IF ~proc.spawned
    THEN Outcome("run_repair", argv, FALSE, FALSE,
                 <<"Failed to execute D backend: ", "io error">>, proc)
    ELSE IF proc.exit # 0
    THEN Outcome("run_repair", argv, FALSE, FALSE,
                 <<"D backend repair failed: ">> \o from_utf8_lossy(proc.stderr), proc)
    ELSE LET p == from_slice(RepairFields, proc.stdout) IN
         Outcome("run_repair", argv, TRUE, p.ok, p.value, proc)

check_privileges(platform, uid) == IF platform = "linux" THEN uid = 0 ELSE FALSE

get_platform_info(platform) == platform

NoProc == [spawned |-> FALSE, exit |-> 0, stderr |-> <<>>, stdout |-> NotJson]

RunDiagnostics ==
    \E proc \in Procs :
        shell' = run_diagnostics(proc) /\ UNCHANGED <<euid, host, shimVars>>

RunRepair ==
    \E target \in Targets, metaOk \in BOOLEAN, proc \in Procs :
        /\ shell' = run_repair(target, host.platform, metaOk, host.mode, proc)
        /\ UNCHANGED <<euid, host, shimVars>>

CheckPrivileges ==
    /\ shell' = Outcome("check_privileges", <<>>, FALSE, TRUE,
                        check_privileges(host.platform, euid), NoProc)
    /\ UNCHANGED <<euid, host, shimVars>>

GetPlatformInfo ==
    /\ shell' = Outcome("get_platform_info", <<>>, FALSE, TRUE,
                        get_platform_info(host.platform), NoProc)
    /\ UNCHANGED <<euid, host, shimVars>>

\* ------------------------------------------------------------ specifications
NoShell == Outcome("none", <<>>, FALSE, TRUE, <<>>, NoProc)

ShimStart ==
    /\ jh = [h \in Handles |-> JUnopened]
    /\ bh = [h \in Handles |-> "unopened"]
    /\ heap = {} /\ ub = FALSE /\ err = ErrorDefault
    /\ out_bus = NULL /\ out_journal = NULL /\ out_string = NULL
    /\ out_data = NoView /\ out_len = 0
    /\ shimCall = NoCall /\ trace = <<>> /\ ncalls = 0
    /\ released = [bus |-> {}, journal |-> {}] /\ misuse = FALSE
    /\ added = [h \in Handles |-> {}]
    /\ anchor = [h \in Handles |-> "moved"]
    /\ held = [f \in Fields |-> NoHeld]

\* a process that uses the shim against some journal
Init ==
    /\ journal \in Fixtures
    /\ ShimStart
    /\ euid = 0 /\ host = [platform |-> "linux", mode |-> Oct(<<4, 0, 7, 5, 5>>)]
    /\ shell = NoShell

\* one more shim call, counted
Counted(A) == ncalls < MaxCalls /\ ncalls' = ncalls + 1 /\ A /\ UNCHANGED shellVars

\* one more shim call, not counted
Uncounted(A) == A /\ UNCHANGED <<ncalls, shellVars>>

\* every exported function, at most MaxCalls calls
Next ==
    \/ Counted(BusOpenSystem) \/ Counted(BusUnref)
    \/ Counted(BusGetPropertyString) \/ Counted(BusErrorFree)
    \/ Counted(FreeString)
    \/ Counted(JournalOpen) \/ Counted(JournalClose)
    \/ Counted(JournalAddMatch) \/ Counted(JournalSeekTail)
    \/ Counted(JournalPrevious) \/ Counted(JournalNext)
    \/ Counted(JournalGetData)

Spec == Init /\ [][Next]_vars

\* the journal functions alone, any number of calls
JournalOnly ==
    \/ Uncounted(JournalOpen) \/ Uncounted(JournalClose)
    \/ Uncounted(JournalAddMatch) \/ Uncounted(JournalSeekTail)
    \/ Uncounted(JournalPrevious) \/ Uncounted(JournalNext)
    \/ Uncounted(JournalGetData)

JournalSpec == Init /\ [][JournalOnly]_vars

\* the bus functions alone, any number of calls
BusInit == Init /\ journal = <<>>

BusOnly ==
    \/ Uncounted(BusOpenSystem) \/ Uncounted(BusUnref)
    \/ Uncounted(BusGetPropertyString) \/ Uncounted(BusErrorFree)
    \/ Uncounted(FreeString)

BusSpec == BusInit /\ [][BusOnly]_vars

\* the desktop shell on some host
ShellInit ==
    /\ journal = <<>>
    /\ ShimStart
    /\ euid \in Euids
    /\ host \in [platform : Platforms, mode : RootModes]
    /\ shell = NoShell

ShellNext == RunDiagnostics \/ RunRepair \/ CheckPrivileges \/ GetPlatformInfo

ShellSpec == ShellInit /\ [][ShellNext]_vars

\* -------------------------------------------------------------- properties
NativeName ==
    [bus_open_system |-> "sd_bus_open_system", bus_unref |-> "sd_bus_unref",
     bus_get_property_string |-> "sd_bus_get_property_string",
     bus_error_free |-> "sd_bus_error_free", journal_open |-> "sd_journal_open",
     journal_close |-> "sd_journal_close",
     journal_add_match |-> "sd_journal_add_match",
     journal_seek_tail |-> "sd_journal_seek_tail",
     journal_previous |-> "sd_journal_previous", journal_next |-> "sd_journal_next",
     journal_get_data |-> "sd_journal_get_data"]

\* the last shim call issued exactly one native call: the matching function,
\* with the same arguments, and its result is what the shim returned
Forwarded ==
    trace = <<[fn |-> NativeName[shimCall.fn], args |-> shimCall.args,
               ret |-> shimCall.ret]>>

\* handles the caller holds and has not released
LiveJ == KnownJ \ released.journal
LiveB == KnownB \ released.bus

\* the records that satisfy the matches the caller added on j
CallerMatches(j) == {ParseMatch(d, Len(d))[1] : d \in added[j]}
Expected(j) == {i \in 1..Len(journal) : Satisfies(journal[i], CallerMatches(j))}

\* C1: every exported function except free_string issues exactly one call of
\* the matching native function with the same arguments and returns its result
\* unchanged, negative statuses included.
C1_PassThrough == shimCall.fn \notin {"none", "free_string"} => Forwarded

C1_Witness ==
    /\ shimCall.fn = "bus_get_property_string"
    /\ shimCall.ret < 0
    /\ Forwarded

\* C2: free_string(NULL), error_free(NULL) and error_free of a descriptor that
\* owns nothing release no memory, leave the heap, the handles and the caller's
\* slots as they are, never fault, and a second call changes nothing more.
Untouched(w) ==
    /\ w.heap = heap /\ w.bh = bh /\ w.jh = jh /\ w.ub = ub
    /\ w.out_bus = out_bus /\ w.out_journal = out_journal
    /\ w.out_string = out_string /\ w.out_data = out_data /\ w.out_len = out_len
    /\ w.err.need_free = 0

SameMemory(a, b) == [a EXCEPT !.trace = <<>>] = [b EXCEPT !.trace = <<>>]

C2_NullFreeIsNoOp ==
    ~ub =>
        \A c \in Choices :
            LET f1 == systemd_shim_free_string(W, NULL, c)
                f2 == systemd_shim_free_string(f1.w, NULL, c)
                n1 == systemd_shim_bus_error_free(W, NULL, c)
                n2 == systemd_shim_bus_error_free(n1.w, NULL, c)
                e1 == systemd_shim_bus_error_free(W, ErrPtr, c)
                e2 == systemd_shim_bus_error_free(e1.w, ErrPtr, c)
            IN  /\ f1.w = W /\ f2.w = W
                /\ SameMemory(n1.w, W) /\ SameMemory(n2.w, n1.w)
                /\ err.need_free = 0 =>
                       Untouched(e1.w) /\ SameMemory(e2.w, e1.w)

C2_Witness ==
    /\ shimCall.fn = "free_string" /\ shimCall.args = <<NULL>>
    /\ heap # {} /\ LiveB # {}
    /\ err.need_free = 0 /\ err.message = StaticMsg

\* C3: a call on a released handle (a second release, or a use after release)
\* is not rejected by the shim: it reaches the native library as the one
\* matching call with the same handle, and the library's behaviour is then
\* undefined.  A run in which the library's behaviour is still defined has
\* released no handle twice and used none after its release.
C3_ReleaseNotGuarded == misuse => (ub /\ Forwarded)

C3_Witness ==
    /\ misuse /\ ub
    /\ shimCall.fn = "journal_close"
    /\ shimCall.args[1] \in released.journal

\* C4: from the tail, the first journal_previous that returns a positive value
\* stops on the newest record matching the caller's matches; every
\* journal_previous that returns a positive value stops on a strictly older
\* matching record; it returns zero only if there is no older matching record,
\* and then zero is what it returns unless the library reports an error.
C4_CursorDirection ==
    ~ub =>
        \A j \in LiveJ, c \in Choices :
            LET r == systemd_shim_journal_previous(W, j, c)
                from == IF anchor[j] = "tail" THEN Len(journal) + 1
                        ELSE jh[j].cursor
                older == {i \in Expected(j) : i < from}
            IN  /\ r.ret > 0 => /\ older # {}
                                /\ r.w.jh[j].cursor \in older
                                /\ anchor[j] = "tail" =>
                                       r.w.jh[j].cursor = SetMax(Expected(j))
                /\ r.ret = 0 => older = {}
                /\ older = {} => r.ret <= 0 /\ (~c.fail => r.ret = 0)

C4_Witness ==
    /\ shimCall.fn = "journal_previous" /\ shimCall.ret = 0
    /\ \E j \in LiveJ :
        /\ shimCall.args = <<j>>
        /\ jh[j].cursor \in 2..Len(journal)
        /\ added[j] # {}

\* C5: every record a journal_next or journal_previous call stops on
\* (positive return) satisfies the matches the caller has added.
C5_OnlyMatching ==
    (~ub /\ shimCall.fn \in {"journal_next", "journal_previous"} /\ shimCall.ret > 0)
        => jh[shimCall.args[1]].cursor \in Expected(shimCall.args[1])

C5_Witness ==
    /\ shimCall.fn = "journal_next" /\ shimCall.ret > 0
    /\ \E j \in LiveJ :
        /\ shimCall.args = <<j>>
        /\ added[j] # {}
        /\ \E i \in 1..Len(journal) : i < jh[j].cursor /\ i \notin Expected(j)

\* C6: the bytes of every view obtained since the last journal_next or
\* journal_previous call are still what they were when journal_get_data
\* returned them; a journal_get_data that succeeds returns the value the record
\* under the cursor has for the field, with its length; and the shim allocates
\* nothing: the view points into the journal's own buffers.
C6_BorrowedView ==
    ~ub =>
        /\ \A f \in Fields :
               held[f] # NoHeld =>
                   /\ Deref(W, held[f].ptr) = held[f].bytes
                   /\ held[f].len = Len(held[f].bytes)
                   /\ held[f].bytes # <<"dangling">>
        /\ (shimCall.fn = "journal_get_data" /\ shimCall.ret >= 0) =>
               LET j == shimCall.args[1]
                   f == shimCall.args[2]
               IN  /\ jh[j].cursor \in 1..Len(journal)
                   /\ f \in DOMAIN journal[jh[j].cursor]
                   /\ held[f].ptr = out_data
                   /\ held[f].bytes = Bytes(journal[jh[j].cursor], f)
        /\ \A j \in LiveJ, f \in Fields, c \in Choices :
               LET r == systemd_shim_journal_get_data(W, j, f, "out_data", "out_len", c)
               IN  r.w.heap = heap /\ (r.ret >= 0 => r.w.out_data.h = j)

C6_Witness ==
    /\ shimCall.fn = "journal_seek_tail" /\ shimCall.ret >= 0
    /\ held["UNIT"] # NoHeld /\ held["MESSAGE"] # NoHeld
    /\ \E j \in LiveJ : jh[j].buf = 2 /\ held["UNIT"].ptr.pos = 2

\* C7: a property query with an error descriptor either fails (negative
\* status, descriptor with a non-null message, out_string not written) or
\* succeeds (non-negative status, out_string a block allocated by this call);
\* a query to a destination that does not exist fails; the string is released
\* by one free_string, and a second free_string of it is undefined.
C7_TwoOutcomes ==
    ~ub =>
        \A b \in LiveB, d \in Destinations, c \in AllChoices :
            LET r == systemd_shim_bus_get_property_string(
                         W, b, d, "/path", "iface", "member", ErrPtr, "out_string", c)
                s == r.w.out_string
                f1 == systemd_shim_free_string(r.w, s, c)
                f2 == systemd_shim_free_string(f1.w, s, c)
            IN  /\ d \notin ExistingDest => r.ret < 0
                /\ r.ret < 0 =>
                       /\ r.w.err.message # NULL
                       /\ r.w.out_string = out_string
                       /\ r.w.heap \ heap \subseteq {r.w.err.message}
                /\ r.ret >= 0 =>
                       /\ s # NULL /\ s \notin heap /\ r.w.heap = heap \cup {s}
                       /\ r.w.err = err
                       /\ ~f1.w.ub /\ f1.w.heap = heap
                       /\ f2.w.ub

C7_Witness ==
    /\ shimCall.fn = "bus_get_property_string" /\ shimCall.ret < 0
    /\ shimCall.args[2] = "no.such.destination" /\ shimCall.args[6] = ErrPtr
    /\ err.message # NULL /\ out_string = NULL /\ ~ub

\* C9: after run_diagnostics or run_repair, a subprocess that exited with a
\* non-zero status gives an error made of the handler's prefix and the
\* standard-error text (lossily decoded), and standard output is not parsed;
\* a result is returned only if the subprocess exited with zero and standard
\* output held the document's fields.
ErrorPrefix ==
    [run_diagnostics |-> "D backend failed: ",
     run_repair |-> "D backend repair failed: "]
RequiredFields == [run_diagnostics |-> DiagnosticFields, run_repair |-> RepairFields]
Ran == shell.argv # <<>> /\ shell.proc.spawned

C9_ExitStatus ==
    shell.cmd \in {"run_diagnostics", "run_repair"} =>
        /\ (Ran /\ shell.proc.exit # 0) =>
               /\ ~shell.ok /\ ~shell.parsed
               /\ shell.value[1] = ErrorPrefix[shell.cmd]
               /\ Len(shell.value) = 1 + Len(shell.proc.stderr)
               /\ \A i \in 1..Len(shell.proc.stderr) :
                      shell.value[i + 1] =
                          IF shell.proc.stderr[i] = "xFF" THEN "uFFFD"
                          ELSE shell.proc.stderr[i]
        /\ shell.ok =>
               /\ Ran /\ shell.proc.exit = 0 /\ shell.parsed
               /\ RequiredFields[shell.cmd] \subseteq DOMAIN shell.proc.stdout
               /\ shell.value =
                      [k \in RequiredFields[shell.cmd] |-> shell.proc.stdout[k]]

C9_Witness ==
    /\ shell.cmd = "run_diagnostics" /\ Ran
    /\ shell.proc.exit = 1 /\ shell.proc.stderr = <<"boom">>
    /\ shell.proc.stdout = Obj(DiagnosticFields)
    /\ ~shell.ok /\ ~shell.parsed

\* C10: on a Unix host, run_repair called by a process whose effective user
\* id is not 0 returns "Repair operations require administrator privileges"
\* (or the error of reading the metadata of "/", which the handler reports
\* first) and launches no subprocess.
C10_RepairRequiresRoot ==
    (shell.cmd = "run_repair" /\ host.platform = "linux" /\ euid # 0) =>
        /\ ~shell.ok
        /\ shell.value \in {<<"Repair operations require administrator privileges">>,
                            <<"io error">>}
        /\ shell.argv = <<>>

====
